---- MODULE Spec2Model ----
(***************************************************************************)
(* Model of the sv-language-index crate: the line table (position.rs),     *)
(* the per-file index built from a syntax tree (DataPerFile, lib.rs) and   *)
(* the database of files with its global module table (Db, lib.rs).        *)
(*                                                                         *)
(* A syntax tree is what the external parser hands over: the newline       *)
(* tokens of the text and the top-level descriptions with the Locate       *)
(* (offset, 1-based line, len) of each token the index builder reads.      *)
(***************************************************************************)
EXTENDS Integers, Sequences, FiniteSets, TLC

\* ------------------------------------------------------------------------
\* Bounds of the model
\* ------------------------------------------------------------------------

\* number of distinct paths the caller uses
NumPaths == 3

\* last row and last column of the document positions that are queried
MaxRow == 1
MaxCol == 3

\* line terminators of a text whose line table is built on its own, and the
\* longest line content of such a text
MaxTerminators == 3
MaxLineLen == 1

\* slots in a page of the tables that hold the maps over numbered keys
PageLen == 256

\* most blanks before the module keyword of a line of the two-line texts
MaxIndent == 2

\* ------------------------------------------------------------------------
\* Program constants
\* ------------------------------------------------------------------------

\* FileId(u16): number of bits of a FileId
FileIdBits == 16

\* `(0usize - 1) as u32` when the subtraction wraps: u32::MAX, all 32 bits set;
\* written as the signed reading of those bits, the model checker's integers
\* being 32-bit signed
U32Max == -1

None == [some |-> FALSE]

Some(v) == [some |-> TRUE, value |-> v]

\* ------------------------------------------------------------------------
\* position.rs
\* ------------------------------------------------------------------------

Position(row, col) == [row |-> row, col |-> col]

Range(begin, end) == [begin |-> begin, end |-> end]

\* #[derive(PartialOrd, Ord)] on Position: row first, then col
PositionCmp(a, b) ==
    IF a.row < b.row THEN "Less"
    ELSE IF a.row > b.row THEN "Greater"
    ELSE IF a.col < b.col THEN "Less"
    ELSE IF a.col > b.col THEN "Greater"
    ELSE "Equal"

\* impl PartialOrd<Position> for Range
RangePartialCmp(self, other) ==
    IF self.end.row < other.row THEN "Less"
    ELSE IF self.begin.row > other.row THEN "Greater"
    ELSE IF self.begin.row = other.row /\ self.begin.col < other.col THEN "Less"
    ELSE IF self.end.row = other.row /\ self.end.col < other.col THEN "Greater"
    ELSE "Equal"

\* s starts with the pattern pat
StartsWith(s, pat) ==
    /\ Len(s) >= Len(pat)
    /\ SubSeq(s, 1, Len(pat)) = pat

RECURSIVE SplitFrom(_, _, _)
\* str::split: the pieces of s between the occurrences of pat, the piece in
\* progress being acc
SplitFrom(s, pat, acc) ==
    IF s = <<>> THEN <<acc>>
    ELSE IF StartsWith(s, pat)
         THEN <<acc>> \o SplitFrom(SubSeq(s, Len(pat) + 1, Len(s)), pat, <<>>)
         ELSE SplitFrom(Tail(s), pat, Append(acc, Head(s)))

Split(s, pat) == SplitFrom(s, pat, <<>>)

RECURSIVE InnerSplitLoop(_, _)
\* the loop `for s in s.split("\n")` of LineIndex::new over the pieces left;
\* st = [offsets, pos, first]
InnerSplitLoop(pieces, st) ==
    IF pieces = <<>> THEN st
    ELSE LET pushed == IF ~st.first THEN Append(st.offsets, st.pos) ELSE st.offsets
         IN InnerSplitLoop(Tail(pieces),
                           [offsets |-> pushed,
                            pos |-> st.pos + Len(Head(pieces)) + 1,
                            first |-> FALSE])

RECURSIVE OuterSplitLoopNoSkip(_, _)
\* the outer loop without the `pos += 1` that steps over the rest of a CR-LF
OuterSplitLoopNoSkip(pieces, st) ==
    IF pieces = <<>> THEN st
    ELSE LET inner == InnerSplitLoop(Split(Head(pieces), <<"\n">>), st)
         IN OuterSplitLoopNoSkip(Tail(pieces), inner)

RECURSIVE OuterSplitLoop(_, _)
\* the loop `for s in newline_str.split("\r\n")` of LineIndex::new
OuterSplitLoop(pieces, st) ==
    IF pieces = <<>> THEN st
    ELSE LET inner == InnerSplitLoop(Split(Head(pieces), <<"\n">>), st)
         IN OuterSplitLoop(Tail(pieces), [inner EXCEPT !.pos = inner.pos + 1])

RECURSIVE NewlineLoop(_, _)
\* the loop of LineIndex::new over the WhiteSpace::Newline tokens of the tree
NewlineLoop(newlines, offsets) ==
    IF newlines = <<>> THEN offsets
    ELSE LET tok == Head(newlines)
             st == OuterSplitLoop(Split(tok.str, <<"\r", "\n">>),
                                  [offsets |-> offsets, pos |-> tok.offset, first |-> TRUE])
         IN NewlineLoop(Tail(newlines), st.offsets)

\* LineIndex::new
LineIndexNew(syntax_tree) == NewlineLoop(syntax_tree.newlines, <<0>>)

\* LineIndex::locate_to_position; the line table is 0-based in the code and a
\* 1-based sequence here, so self.0.get(line - 1) is self[line]
LocateToPosition(self, locate) ==
    IF locate.line \in DOMAIN self
    THEN [panic |-> "", row |-> locate.line - 1, col |-> locate.offset - self[locate.line]]
    ELSE [panic |-> "line_index mismatched", row |-> 0, col |-> 0]

RECURSIVE OffsetScan(_, _, _, _, _)
\* the loop of LineIndex::offset_to_position from index idx (0-based) on
OffsetScan(self, offset, idx, line, col) ==
    IF idx >= Len(self) THEN [line |-> line, col |-> col]
    ELSE IF self[idx + 1] > offset THEN [line |-> idx, col |-> col]
    ELSE OffsetScan(self, offset, idx + 1, idx, offset - self[idx + 1])

\* LineIndex::offset_to_position; `line - 1` is a usize subtraction: when line
\* is 0 it panics in a build with overflow checks and wraps in one without
OffsetToPosition(self, offset, overflow_checks) ==
    LET r == OffsetScan(self, offset, 0, 0, 0)
    IN IF r.line >= 1 THEN [panic |-> "", row |-> r.line - 1, col |-> r.col]
       ELSE IF overflow_checks
            THEN [panic |-> "attempt to subtract with overflow", row |-> 0, col |-> 0]
            ELSE [panic |-> "", row |-> U32Max, col |-> r.col]

\* ------------------------------------------------------------------------
\* slice::binary_search_by, called at lib.rs:77 and lib.rs:162
\* ------------------------------------------------------------------------

\* The standard library has shipped two algorithms.  Both return the same
\* result when the comparator is consistent with the order of the slice;
\* otherwise the result is unspecified and differs between them:
\*   "early"  returns at the first probe that compares Equal,
\*   "late"   halves down to one candidate and compares it at the end.
BinarySearchImpls == {"early", "late"}

RECURSIVE BinarySearchEarly(_, _, _)
\* cmps[i + 1] is the comparator's answer for element i of the slice
BinarySearchEarly(cmps, left, right) ==
    IF left >= right THEN [ok |-> FALSE, index |-> left]
    ELSE LET mid == left + ((right - left) \div 2)
             cmp == cmps[mid + 1]
         IN IF cmp = "Less" THEN BinarySearchEarly(cmps, mid + 1, right)
            ELSE IF cmp = "Greater" THEN BinarySearchEarly(cmps, left, mid)
            ELSE [ok |-> TRUE, index |-> mid]

RECURSIVE BinarySearchLate(_, _, _)
BinarySearchLate(cmps, base, size) ==
    IF size > 1
    THEN LET half == size \div 2
             mid == base + half
         IN BinarySearchLate(cmps, IF cmps[mid + 1] = "Greater" THEN base ELSE mid, size - half)
    ELSE LET cmp == cmps[base + 1]
         IN IF cmp = "Equal" THEN [ok |-> TRUE, index |-> base]
            ELSE [ok |-> FALSE, index |-> base + (IF cmp = "Less" THEN 1 ELSE 0)]

\* Ok(index) or Err(index), the index 0-based
BinarySearchBy(impl, cmps) ==
    IF impl = "early" THEN BinarySearchEarly(cmps, 0, Len(cmps))
    ELSE IF Len(cmps) = 0 THEN [ok |-> FALSE, index |-> 0]
    ELSE BinarySearchLate(cmps, 0, Len(cmps))

\* ------------------------------------------------------------------------
\* semantic.rs and DataPerFile (lib.rs)
\* ------------------------------------------------------------------------

ModuleIdentifierItem(module_name, location) ==
    [kind |-> "ModuleIdentifier", module_name |-> module_name, location |-> location]

ModuleInstanceItem(module_name, instance_name, location) ==
    [kind |-> "ModuleInstance", module_name |-> module_name,
     instance_name |-> instance_name, parameters |-> <<>>, ports |-> <<>>,
     location |-> location]

UnknownIdentifierItem(name, location) ==
    [kind |-> "UnknownIdentifier", name |-> name, location |-> location]

\* Arena::get: an ItemId of a fresh arena is the 0-based slot, generation 0
ArenaGet(items, id) ==
    IF id + 1 \in DOMAIN items THEN Some(items[id + 1]) ELSE None

\* HashMap::insert
MapInsert(map, key, value) ==
    IF key \in DOMAIN map THEN [map EXCEPT ![key] = value]
    ELSE (key :> value) @@ map

EmptyMap == [k \in {} |-> 0]

\* A map over numbered keys (the paths, the FileIds) is a table with a slot
\* for each key 1 .. n that holds what get returns for the key, None or
\* Some(value); the slots are kept in pages of PageLen consecutive keys.

\* the table of the slots entry(1), ..., entry(n)
Filled(n, entry(_)) ==
    [h \in 1 .. ((n + PageLen - 1) \div PageLen) |->
        [l \in 1 .. (IF n - (h - 1) * PageLen < PageLen
                     THEN n - (h - 1) * PageLen ELSE PageLen) |->
            entry((h - 1) * PageLen + l)] \o <<>>] \o <<>>

NoEntry(k) == None

\* the map without entries
NoEntries(n) == Filled(n, NoEntry)

\* HashMap::get
Get(map, key) == map[((key - 1) \div PageLen) + 1][((key - 1) % PageLen) + 1]

\* HashMap::insert on a numbered key
Put(map, key, value) ==
    [map EXCEPT ![((key - 1) \div PageLen) + 1][((key - 1) % PageLen) + 1] = Some(value)]

\* HashMap::remove on a numbered key
Remove(map, key) ==
    [map EXCEPT ![((key - 1) \div PageLen) + 1][((key - 1) % PageLen) + 1] = None]

\* the number of slots of the table
Slots(map) ==
    IF map = <<>> THEN 0 ELSE (Len(map) - 1) * PageLen + Len(map[Len(map)])

\* the keys whose slot satisfies Test
KeysWhere(map, Test(_)) == {key \in 1 .. Slots(map) : Test(Get(map, key))}

IsSome(entry) == entry.some

\* the keys of the map
Keys(map) == KeysWhere(map, IsSome)

\* Vec::insert at the 0-based index pos
VecInsert(vec, pos, elem) ==
    SubSeq(vec, 1, pos) \o <<elem>> \o SubSeq(vec, pos + 1, Len(vec))

\* the per-file index under construction; panic is the message of the panic
\* that ended the construction, "" when there was none
Panicked(self, message) == [self EXCEPT !.panic = message]

\* DataPerFile::get_location_of_node
GetLocationOfNode(self, locate) ==
    LET begin == LocateToPosition(self.line_index, locate)
    IN [panic |-> begin.panic,
        range |-> Range(Position(begin.row, begin.col),
                        Position(begin.row, begin.col + locate.len))]

\* insert_semantic that pushes the entry at the end of location_map instead
\* of inserting it at the position the search found
InsertSemanticPush(self, semantic, impl) ==
    LET location == semantic.location
        found == BinarySearchBy(impl,
                     [i \in DOMAIN self.location_map |->
                         PositionCmp(self.location_map[i].range.begin, location.begin)])
        idx == Len(self.items)
    IN IF found.ok
       THEN [self |-> Panicked(self, "Already other semantic exists on same position"),
             idx |-> 0]
       ELSE [self |-> [self EXCEPT
                          !.items = Append(self.items, semantic),
                          !.location_map = Append(self.location_map,
                                                  [range |-> location, id |-> idx])],
             idx |-> idx]

\* DataPerFile::insert_semantic: the index after the insert and the new id
InsertSemantic(self, semantic, impl) ==
    LET location == semantic.location
        found == BinarySearchBy(impl,
                     [i \in DOMAIN self.location_map |->
                         PositionCmp(self.location_map[i].range.begin, location.begin)])
        idx == Len(self.items)
    IN IF found.ok
       THEN [self |-> Panicked(self, "Already other semantic exists on same position"),
             idx |-> 0]
       ELSE [self |-> [self EXCEPT
                          !.items = Append(self.items, semantic),
                          !.location_map = VecInsert(self.location_map, found.index,
                                                     [range |-> location, id |-> idx])],
             idx |-> idx]

\* the arm ModuleOrGenerateItem::Module with the two ids of the ModuleInstance
\* item exchanged
ProcessModuleInstantiationSwapped(self, item, impl) ==
    LET type_location == GetLocationOfNode(self, item.module_identifier.locate)
        after_type == InsertSemantic(self,
                          ModuleIdentifierItem(item.module_identifier.name,
                                               type_location.range), impl)
        name_location == GetLocationOfNode(after_type.self, item.instance_identifier.locate)
        after_name == InsertSemantic(after_type.self,
                          UnknownIdentifierItem(item.instance_identifier.name,
                                                name_location.range), impl)
    IN IF type_location.panic # "" THEN Panicked(self, type_location.panic)
       ELSE IF after_type.self.panic # "" THEN after_type.self
       ELSE IF name_location.panic # "" THEN Panicked(after_type.self, name_location.panic)
       ELSE IF after_name.self.panic # "" THEN after_name.self
       ELSE [after_name.self EXCEPT
                !.items = Append(@, ModuleInstanceItem(after_name.idx, after_type.idx,
                                                       name_location.range))]

\* the arm ModuleOrGenerateItem::Module of process_module_declaration
ProcessModuleInstantiation(self, item, impl) ==
    LET type_location == GetLocationOfNode(self, item.module_identifier.locate)
        after_type == InsertSemantic(self,
                          ModuleIdentifierItem(item.module_identifier.name,
                                               type_location.range), impl)
        name_location == GetLocationOfNode(after_type.self, item.instance_identifier.locate)
        after_name == InsertSemantic(after_type.self,
                          UnknownIdentifierItem(item.instance_identifier.name,
                                                name_location.range), impl)
    IN IF type_location.panic # "" THEN Panicked(self, type_location.panic)
       ELSE IF after_type.self.panic # "" THEN after_type.self
       ELSE IF name_location.panic # "" THEN Panicked(after_type.self, name_location.panic)
       ELSE IF after_name.self.panic # "" THEN after_name.self
       ELSE [after_name.self EXCEPT
                !.items = Append(@, ModuleInstanceItem(after_type.idx, after_name.idx,
                                                       name_location.range))]

\* the kinds of body item that process_module_declaration answers with todo!()
TodoItemKinds ==
    {"GenerateRegion", "Parameter", "Gate", "Udp", "SpecifyBlock", "Specparam",
     "ProgramDeclaration", "ModuleDeclaration", "InterfaceDeclaration",
     "TimeunitsDeclaration"}

RECURSIVE ProcessItems(_, _, _)
\* the loop `for item in items` of process_module_declaration
ProcessItems(self, items, impl) ==
    IF items = <<>> \/ self.panic # "" THEN self
    ELSE LET item == Head(items)
         IN IF item.kind \in TodoItemKinds THEN Panicked(self, "not yet implemented")
            ELSE IF item.kind = "Module"
                 THEN ProcessItems(ProcessModuleInstantiation(self, item, impl),
                                   Tail(items), impl)
            ELSE ProcessItems(self, Tail(items), impl)

\* DataPerFile::process_module_declaration
ProcessModuleDeclaration(self, module, items, impl) ==
    LET end_locate == IF module.end_label.present THEN module.end_label.locate
                      ELSE module.endmodule
        begin == LocateToPosition(self.line_index, module.keyword)
        end == LocateToPosition(self.line_index, end_locate)
        location == Range(Position(begin.row, begin.col), Position(end.row, end.col))
        declared == InsertSemantic(self, ModuleIdentifierItem(module.identifier, location), impl)
        done == ProcessItems(declared.self, items, impl)
    IN IF begin.panic # "" THEN Panicked(self, begin.panic)
       ELSE IF end.panic # "" THEN Panicked(self, end.panic)
       ELSE IF declared.self.panic # "" THEN declared.self
       ELSE IF done.panic # "" THEN done
       ELSE [done EXCEPT
                !.global_items = MapInsert(@, module.identifier, declared.idx)]

RECURSIVE ProcessDescriptions(_, _, _)
\* the loop `for desc in &source_text.nodes.2` of DataPerFile::new
ProcessDescriptions(self, descriptions, impl) ==
    IF descriptions = <<>> \/ self.panic # "" THEN self
    ELSE LET desc == Head(descriptions)
         IN IF desc.kind = "Nonansi"
            THEN ProcessDescriptions(
                     ProcessModuleDeclaration(self, desc,
                         SelectSeq(desc.items, LAMBDA item : item.kind # "PortDeclaration"),
                         impl),
                     Tail(descriptions), impl)
            ELSE IF desc.kind = "Ansi"
            THEN ProcessDescriptions(ProcessModuleDeclaration(self, desc, desc.items, impl),
                                     Tail(descriptions), impl)
            ELSE IF desc.kind \in {"Wildcard", "ExternNonansi", "ExternAnsi"}
            THEN Panicked(self, "not yet implemented")
            ELSE ProcessDescriptions(self, Tail(descriptions), impl)

\* the DataPerFile that DataPerFile::new starts from
EmptyDataPerFile(index) ==
    [line_index |-> index,
     items |-> <<>>,
     location_map |-> <<>>,
     global_items |-> EmptyMap,
     panic |-> ""]

\* DataPerFile::new
DataPerFileNew(syntax_tree, impl) ==
    ProcessDescriptions(EmptyDataPerFile(LineIndexNew(syntax_tree)),
                        syntax_tree.descriptions, impl)

\* ------------------------------------------------------------------------
\* Syntax trees handed to update
\* ------------------------------------------------------------------------

Locate(offset, line, len) == [offset |-> offset, line |-> line, len |-> len]

NoLabel == [present |-> FALSE, locate |-> Locate(0, 1, 0)]

\* "\r\n module ma(a);input a;endmodule"
LeafTree ==
    [newlines |-> << [offset |-> 0, str |-> <<"\r", "\n">>] >>,
     descriptions |-> <<
        [kind |-> "Nonansi", keyword |-> Locate(3, 2, 6), identifier |-> "ma",
         endmodule |-> Locate(24, 2, 9), end_label |-> NoLabel,
         items |-> << [kind |-> "PortDeclaration"] >>] >>]

\* "module t;\n ma i();wire w;endmodule:t package p;endpackage"
TopTree ==
    [newlines |-> << [offset |-> 9, str |-> <<"\n">>] >>,
     descriptions |-> <<
        [kind |-> "Ansi", keyword |-> Locate(0, 1, 6), identifier |-> "t",
         endmodule |-> Locate(25, 2, 9),
         end_label |-> [present |-> TRUE, locate |-> Locate(34, 2, 1)],
         items |-> << [kind |-> "Module",
                       module_identifier |-> [name |-> "ma", locate |-> Locate(11, 2, 2)],
                       instance_identifier |-> [name |-> "i", locate |-> Locate(14, 2, 1)]],
                      [kind |-> "ModuleItem"] >>],
        [kind |-> "PackageDeclaration"] >>]

\* "module g;generate endgenerate endmodule"
GenTree ==
    [newlines |-> <<>>,
     descriptions |-> <<
        [kind |-> "Ansi", keyword |-> Locate(0, 1, 6), identifier |-> "g",
         endmodule |-> Locate(30, 1, 9), end_label |-> NoLabel,
         items |-> << [kind |-> "GenerateRegion"] >>] >>]

\* "/*\n*/module c;endmodule": the line break is inside a comment token, so
\* the tree has no newline token while the module keyword is on line 2
CmtTree ==
    [newlines |-> <<>>,
     descriptions |-> <<
        [kind |-> "Ansi", keyword |-> Locate(5, 2, 6), identifier |-> "c",
         endmodule |-> Locate(14, 2, 9), end_label |-> NoLabel, items |-> <<>>] >>]

\* "package p;endpackage"
PkgTree ==
    [newlines |-> <<>>, descriptions |-> << [kind |-> "PackageDeclaration"] >>]

\* the trees update is called with
TreeNames == {"leaf", "top", "gen", "cmt"}

AllTreeNames == TreeNames \cup {"pkg"}

TreeOf(name) ==
    CASE name = "leaf" -> LeafTree
      [] name = "pkg" -> PkgTree
      [] name = "top" -> TopTree
      [] name = "gen" -> GenTree
      [] name = "cmt" -> CmtTree

\* what DataPerFile::new makes of each tree, computed once
Indexed ==
    [tree \in AllTreeNames, impl \in BinarySearchImpls |->
        DataPerFileNew(TreeOf(tree), impl)]

\* the paths of the documents, numbered from 1
Paths == 1 .. NumPaths

Positions == {Position(row, col) : row \in 0 .. MaxRow, col \in 0 .. MaxCol}

\* ------------------------------------------------------------------------
\* Db (lib.rs)
\* ------------------------------------------------------------------------

VARIABLES
    files,              \* Db.files: BiHashMap<PathBuf, FileId>, as path -> FileId
    data,               \* Db.data: HashMap<FileId, DataPerFile>
    global_items,       \* Db.global_items: HashMap<String, (FileId, ItemId)>
    binary_search_impl, \* the binary_search_by the build links
    newline_tokens,     \* the newline tokens of a text indexed on its own
    line_index,         \* the LineIndex built from newline_tokens
    building,           \* a DataPerFile under construction by insert_semantic
    result,             \* what the last call returned
    seen,               \* history: the number of distinct paths update registered
    first_id,           \* history: the FileId each path got at first sight
    declared_order      \* history: per module name, the paths whose current index
                        \* declares it, the least recently updated first

vars == <<files, data, global_items, binary_search_impl, newline_tokens, line_index,
          building, result, seen, first_id, declared_order>>

db == [files |-> files, data |-> data, global_items |-> global_items]

\* BiHashMap::insert: pairs sharing the left or the right value are overwritten
BiMapInsert(map, left, right) ==
    LET HoldsRight(entry) == entry = Some(right)
        holders == KeysWhere(map, HoldsRight)
        removed == IF holders = {} THEN map
                   ELSE Remove(map, CHOOSE l \in holders : TRUE)
    IN Put(removed, left, right)

\* Db::get_fileid
GetFileId(d, path) == Get(d.files, path)

\* path_to_fileid without the lookup of the path: every call takes a new FileId
PathToFileIdAlwaysNew(map, path) ==
    LET new_file_id == Cardinality(Keys(map)) % (2 ^ FileIdBits)
    IN [files |-> BiMapInsert(map, path, new_file_id), file_id |-> new_file_id]

\* Db::path_to_fileid: the catalog after the call and the FileId returned;
\* `self.files.len() as _` truncates the count to the 16 bits of a FileId
PathToFileId(map, path) ==
    IF Get(map, path).some
    THEN [files |-> map, file_id |-> Get(map, path).value]
    ELSE LET new_file_id == Cardinality(Keys(map)) % (2 ^ FileIdBits)
         IN [files |-> BiMapInsert(map, path, new_file_id), file_id |-> new_file_id]

\* an update that leaves the names of the old per-file index in the table
RemoveNoModules(table, old_data) == table

\* lib.rs:52-54: the names of the old per-file index are removed
RemoveOldModules(table, old_data) ==
    [n \in DOMAIN table \ DOMAIN old_data.global_items |-> table[n]]

\* lib.rs:57-60: the names of the new per-file index are inserted
InsertNewModules(table, file_id, new_data) ==
    [n \in DOMAIN table \cup DOMAIN new_data.global_items |->
        IF n \in DOMAIN new_data.global_items
        THEN [file_id |-> file_id, item_id |-> new_data.global_items[n]]
        ELSE table[n]]

\* the DataPerFile a finished construction returns
Built(self) ==
    [line_index |-> self.line_index, items |-> self.items,
     location_map |-> self.location_map, global_items |-> self.global_items]

\* lib.rs:50-62, assigned being what path_to_fileid made of the catalog and
\* new_data the index DataPerFile::new returned
Reconciled(d, assigned, new_data) ==
    LET file_id == assigned.file_id
        removed == IF Get(d.data, file_id + 1).some
                   THEN RemoveOldModules(d.global_items, Get(d.data, file_id + 1).value)
                   ELSE d.global_items
    IN [files |-> assigned.files,
        data |-> Put(d.data, file_id + 1, new_data),
        global_items |-> InsertNewModules(removed, file_id, new_data),
        returned |-> Some(file_id), panic |-> ""]

\* update with path_to_fileid called before DataPerFile::new: a failed update
\* has registered the path
DbUpdateRegistersFirst(d, path, new_data) ==
    IF new_data.panic # ""
    THEN [files |-> PathToFileId(d.files, path).files, data |-> d.data,
          global_items |-> d.global_items, returned |-> None, panic |-> new_data.panic]
    ELSE CHOOSE after \in {Reconciled(d, assigned, Built(new_data)) :
                              assigned \in {PathToFileId(d.files, path)}} : TRUE

\* Db::update, new_data being what DataPerFile::new (line 49) made of the
\* tree: the database after the call, the FileId returned and the message of
\* the panic that ended the call ("" when it returned).  DataPerFile::new runs
\* first, so its panic unwinds out of update before any field is written.
DbUpdate(d, path, new_data) ==
    IF new_data.panic # ""
    THEN [files |-> d.files, data |-> d.data, global_items |-> d.global_items,
          returned |-> None, panic |-> new_data.panic]
    ELSE CHOOSE after \in {Reconciled(d, assigned, Built(new_data)) :
                              assigned \in {PathToFileId(d.files, path)}} : TRUE

\* Db::get_item_on_location
GetItemOnLocation(d, impl, file_id, position) ==
    IF ~Get(d.data, file_id + 1).some THEN None
    ELSE LET dpf == Get(d.data, file_id + 1).value
             found == BinarySearchBy(impl,
                          [i \in DOMAIN dpf.location_map |->
                              RangePartialCmp(dpf.location_map[i].range, position)])
         IN IF found.ok
            THEN Some(dpf.items[dpf.location_map[found.index + 1].id + 1])
            ELSE None

\* Db::get_module; the per-file lookup is unchecked, so a table entry of a
\* file without index is undefined behaviour (undefined |-> TRUE)
GetModule(d, module_name) ==
    IF module_name \notin DOMAIN d.global_items
    THEN [undefined |-> FALSE, found |-> None]
    ELSE LET entry == d.global_items[module_name]
         IN IF ~Get(d.data, entry.file_id + 1).some
            THEN [undefined |-> TRUE, found |-> None]
            ELSE LET item == ArenaGet(Get(d.data, entry.file_id + 1).value.items,
                                      entry.item_id)
                 IN [undefined |-> FALSE,
                     found |-> IF item.some
                               THEN Some([file_id |-> entry.file_id, item |-> item.value])
                               ELSE None]

\* BiHashMap::get_by_right
GetByRight(map, right) ==
    LET HoldsRight(entry) == entry = Some(right)
        holders == KeysWhere(map, HoldsRight)
    IN IF holders = {} THEN None ELSE Some(CHOOSE l \in holders : TRUE)

\* Db::goto_definition: the Option<DocumentRange> returned
DbGotoDefinition(d, impl, document, position) ==
    LET file_id == GetFileId(d, document)
        semantic == GetItemOnLocation(d, impl, file_id.value, position)
        resolved ==
            IF semantic.value.kind = "ModuleIdentifier"
            THEN LET module == GetModule(d, semantic.value.module_name).found
                 IN IF module.some
                    THEN Some([file_id |-> module.value.file_id,
                               location |-> module.value.item.location])
                    ELSE None
            ELSE IF semantic.value.kind = "ModuleInstance"
            THEN LET item == ArenaGet(Get(d.data, file_id.value + 1).value.items,
                                      semantic.value.instance_name)
                 IN IF item.some
                    THEN Some([file_id |-> file_id.value, location |-> item.value.location])
                    ELSE None
            ELSE Some([file_id |-> file_id.value, location |-> semantic.value.location])
    IN IF ~file_id.some THEN None
       ELSE IF ~semantic.some THEN None
       ELSE IF ~resolved.some THEN None
       ELSE Some([document |-> GetByRight(d.files, resolved.value.file_id).value,
                  range |-> resolved.value.location])

\* ------------------------------------------------------------------------
\* The calls
\* ------------------------------------------------------------------------

Call(op, path, tree, value, panic, again) ==
    [op |-> op, path |-> path, tree |-> tree, value |-> value, panic |-> panic,
     again |-> again]

NoCall == Call("none", 0, "", None, "", FALSE)

Init ==
    /\ files = NoEntries(NumPaths)
    /\ data = NoEntries(NumPaths)
    /\ global_items = EmptyMap
    /\ binary_search_impl \in BinarySearchImpls
    /\ newline_tokens = <<>>
    /\ line_index = LineIndexNew([newlines |-> newline_tokens])
    /\ building = EmptyDataPerFile(line_index)
    /\ result = NoCall
    /\ seen = 0
    /\ first_id = NoEntries(NumPaths)
    /\ declared_order = EmptyMap

\* Db::update; again records that a call that returned repeats the call
\* before it
Update(path, tree) ==
    \E after \in {DbUpdate(db, path, Indexed[tree, binary_search_impl])} :
    LET built == Indexed[tree, binary_search_impl]
        ok == after.panic = ""
    IN /\ files' = after.files
       /\ data' = after.data
       /\ global_items' = after.global_items
       /\ result' = IF ok
                    THEN Call("update", path, tree, after.returned, "",
                              /\ result.op = "update"
                              /\ result.panic = ""
                              /\ result.path = path
                              /\ result.tree = tree)
                    ELSE Call("update", path, "", None, after.panic, FALSE)
       /\ seen' = IF ok /\ ~Get(first_id, path).some THEN seen + 1 ELSE seen
       /\ first_id' = IF ok /\ ~Get(first_id, path).some
                      THEN Put(first_id, path, after.returned.value)
                      ELSE first_id
       /\ declared_order' =
              IF ~ok THEN declared_order
              ELSE [n \in DOMAIN declared_order \cup DOMAIN built.global_items |->
                       LET others == IF n \in DOMAIN declared_order
                                     THEN SelectSeq(declared_order[n], LAMBDA p : p # path)
                                     ELSE <<>>
                       IN IF n \in DOMAIN built.global_items THEN Append(others, path)
                          ELSE others]
       /\ UNCHANGED <<binary_search_impl, newline_tokens, line_index, building>>

\* Db::goto_definition (&self)
GotoDefinition(document, position) ==
    /\ result' = Call("goto_definition", 0, "",
                      DbGotoDefinition(db, binary_search_impl, document, position),
                      "", FALSE)
    /\ UNCHANGED <<files, data, global_items, binary_search_impl, newline_tokens,
                   line_index, building, seen, first_id, declared_order>>

\* the paths the caller can pass: those it used before and the next new one,
\* so that path p is the p-th distinct path update sees
Usable(paths) == {p \in paths : p <= seen + 1}

Next ==
    \/ \E path \in Usable(Paths), tree \in TreeNames : Update(path, tree)
    \/ \E document \in Paths, position \in Positions : GotoDefinition(document, position)

Spec == Init /\ [][Next]_vars

\* ------------------------------------------------------------------------
\* The line table on its own: LineIndex is public and so are its methods
\* ------------------------------------------------------------------------

\* the two line terminators
Terminators == {<<"\n">>, <<"\r", "\n">>}

\* a text as its terminated lines: the length of the content of each line
\* and its terminator
TextLines ==
    UNION {[1 .. k -> [len : 0 .. MaxLineLen, term : Terminators]] :
              k \in 0 .. MaxTerminators}

RECURSIVE NewlineTokens(_, _, _)
\* the WhiteSpace::Newline tokens of a text (position.rs:70): one token for
\* each run of terminators, with the offset of the run and its characters
NewlineTokens(lines, offset, tokens) ==
    IF lines = <<>> THEN tokens
    ELSE LET line == Head(lines)
             at == offset + line.len
         IN NewlineTokens(Tail(lines), at + Len(line.term),
                IF line.len = 0 /\ tokens # <<>>
                THEN [tokens EXCEPT ![Len(tokens)].str = @ \o line.term]
                ELSE Append(tokens, [offset |-> at, str |-> line.term]))

\* the offsets of the bytes of a line (1-based) of the table self; the last
\* line has no end in the table and is taken with its longest content
OnLine(self, line) ==
    IF line < Len(self) THEN self[line] .. (self[line + 1] - 1)
    ELSE self[line] .. (self[line] + MaxLineLen)

InitLine ==
    /\ files = NoEntries(NumPaths)
    /\ data = NoEntries(NumPaths)
    /\ global_items = EmptyMap
    /\ binary_search_impl \in BinarySearchImpls
    /\ newline_tokens \in {NewlineTokens(lines, 0, <<>>) : lines \in TextLines}
    /\ line_index = LineIndexNew([newlines |-> newline_tokens])
    /\ building = EmptyDataPerFile(line_index)
    /\ result = NoCall
    /\ seen = 0
    /\ first_id = NoEntries(NumPaths)
    /\ declared_order = EmptyMap

Located(r) == IF r.panic = "" THEN Some(Position(r.row, r.col)) ELSE None

\* LineIndex::locate_to_position on the table
LocateToPositionCall(line, offset) ==
    /\ line \in DOMAIN line_index => offset \in OnLine(line_index, line)
    /\ LET r == LocateToPosition(line_index, Locate(offset, line, 0))
       IN result' = Call("locate_to_position", 0, "", Located(r), r.panic, FALSE)
    /\ UNCHANGED <<files, data, global_items, binary_search_impl, newline_tokens,
                   line_index, building, seen, first_id, declared_order>>

\* LineIndex::offset_to_position on the table, in a build with or without
\* overflow checks
OffsetToPositionCall(offset, overflow_checks) ==
    /\ LET r == OffsetToPosition(line_index, offset, overflow_checks)
       IN result' = Call("offset_to_position", 0, "", Located(r), r.panic, FALSE)
    /\ UNCHANGED <<files, data, global_items, binary_search_impl, newline_tokens,
                   line_index, building, seen, first_id, declared_order>>

\* the offsets of a text of the longest lines
TextOffsets == 0 .. ((MaxTerminators + 1) * (MaxLineLen + 2))

NextLine ==
    \/ \E line \in 1 .. (MaxTerminators + 2), offset \in TextOffsets :
          LocateToPositionCall(line, offset)
    \/ \E offset \in TextOffsets, overflow_checks \in BOOLEAN :
          OffsetToPositionCall(offset, overflow_checks)

SpecLine == InitLine /\ [][NextLine]_vars

\* ------------------------------------------------------------------------
\* The catalog when nearly all FileIds are taken
\* ------------------------------------------------------------------------

\* the number of paths registered at the start: one FileId is left
CatalogBase == (2 ^ FileIdBits) - 1

RegisteredPath(k) == IF k <= CatalogBase THEN Some(k - 1) ELSE None

RegisteredData(k) == IF k <= CatalogBase THEN Some(Built(Indexed["pkg", "early"])) ELSE None

\* the state after update was called with the package-only tree for each of
\* the paths 1 .. CatalogBase in turn
InitCatalog ==
    /\ files = Filled(CatalogBase + NumPaths - 1, RegisteredPath)
    /\ data = Filled(2 ^ FileIdBits, RegisteredData)
    /\ global_items = EmptyMap
    /\ binary_search_impl \in BinarySearchImpls
    /\ newline_tokens = <<>>
    /\ line_index = LineIndexNew([newlines |-> newline_tokens])
    /\ building = EmptyDataPerFile(line_index)
    /\ result = Call("update", CatalogBase, "pkg", Some(CatalogBase - 1), "", FALSE)
    /\ seen = CatalogBase
    /\ first_id = files
    /\ declared_order = EmptyMap

\* the first path and the next new paths
NewPaths == {1} \cup ((CatalogBase + 1) .. (CatalogBase + NumPaths - 1))

NextCatalog ==
    \/ \E path \in Usable(NewPaths), tree \in {"leaf", "gen"} : Update(path, tree)
    \/ \E document \in NewPaths : GotoDefinition(document, Position(1, 1))

SpecCatalog == InitCatalog /\ [][NextCatalog]_vars

\* ------------------------------------------------------------------------
\* Lookups in a file of modules that do not nest
\* ------------------------------------------------------------------------

\* the description of "module <name>;endmodule" whose keyword is at offset
ModuleText(name, offset, line) ==
    [kind |-> "Ansi", keyword |-> Locate(offset, line, 6), identifier |-> name,
     endmodule |-> Locate(offset + 9, line, 9), end_label |-> NoLabel, items |-> <<>>]

\* the tree of a text of two lines: i blanks and, if first, "module a;endmodule",
\* then "\n", j blanks and, if second, "module b;endmodule"
TwoLineTree(i, j, first, second) ==
    LET break == i + (IF first THEN 18 ELSE 0)
    IN [newlines |-> << [offset |-> break, str |-> <<"\n">>] >>,
        descriptions |->
            (IF first THEN << ModuleText("a", i, 1) >> ELSE <<>>)
            \o (IF second THEN << ModuleText("b", break + 1 + j, 2) >> ELSE <<>>)]

TwoLineTrees ==
    {TwoLineTree(i, j, first, second) :
        i \in 0 .. MaxIndent, j \in 0 .. MaxIndent,
        first \in BOOLEAN, second \in BOOLEAN}

\* the state after update was called once, for path 1 with a two-line tree
InitLookup ==
    /\ binary_search_impl \in BinarySearchImpls
    /\ \E tree \in TwoLineTrees :
          \E after \in {DbUpdate([files |-> NoEntries(NumPaths),
                                   data |-> NoEntries(NumPaths),
                                   global_items |-> EmptyMap],
                                  1, DataPerFileNew(tree, binary_search_impl))} :
             /\ after.panic = ""
             /\ files = after.files
             /\ data = after.data
             /\ global_items = after.global_items
             /\ result = Call("update", 1, "", after.returned, "", FALSE)
             /\ first_id = Put(NoEntries(NumPaths), 1, after.returned.value)
             /\ declared_order = [n \in DOMAIN after.global_items |-> <<1>>]
    /\ newline_tokens = <<>>
    /\ line_index = LineIndexNew([newlines |-> newline_tokens])
    /\ building = EmptyDataPerFile(line_index)
    /\ seen = 1

NextLookup == \E position \in Positions : GotoDefinition(1, position)

SpecLookup == InitLookup /\ [][NextLookup]_vars

\* ------------------------------------------------------------------------
\* Vocabulary of the properties
\* ------------------------------------------------------------------------

\* the module names the trees declare
ModuleNames == UNION {DOMAIN Indexed[tree, "early"].global_items : tree \in AllTreeNames}

\* the path the catalog holds for a FileId
FilePath(map, file_id) == GetByRight(map, file_id).value

\* the type-name occurrences of the instantiations of a per-file index
UseSites(dpf) ==
    {dpf.items[dpf.items[i].module_name + 1] :
        i \in {j \in DOMAIN dpf.items : dpf.items[j].kind = "ModuleInstance"}}

\* the queried positions on the characters of a one-row range
Covered(range) ==
    {pos \in Positions : /\ pos.row = range.begin.row
                         /\ range.begin.col <= pos.col
                         /\ pos.col < range.end.col}

\* the position lies between the begin and the end of the range
Contains(range, pos) ==
    /\ PositionCmp(range.begin, pos) # "Greater"
    /\ PositionCmp(pos, range.end) # "Greater"

\* the Range of the declaration of a module name in a per-file index
DeclarationRange(dpf, name) == dpf.items[dpf.global_items[name] + 1].location

\* the FileIds that have a per-file index
IndexedFiles(d) == {k - 1 : k \in Keys(d.data)}

\* the per-file index of a FileId
DataOf(d, file_id) == Get(d.data, file_id + 1).value

\* the files whose current index declares the name
Declarers(d, name) ==
    {f \in IndexedFiles(d) : name \in DOMAIN DataOf(d, f).global_items}

\* what goto_definition returns in database d
Goto(d, document, position) ==
    DbGotoDefinition(d, binary_search_impl, document, position)

\* ------------------------------------------------------------------------
\* Properties
\* ------------------------------------------------------------------------

\* C1: the names the global table resolves are exactly the names declared by
\* the current index of some indexed file.
C1_TableIsUnionOfDeclared ==
    {n \in ModuleNames : GetModule(db, n).found.some}
        = UNION {DOMAIN DataOf(db, f).global_items : f \in IndexedFiles(db)}

\* C2: when no module name is declared by two files, goto_definition at every
\* position on a type-name occurrence of a declared module returns the Range
\* of its declaration and the path of the declaring file.
C2_UseResolvesToDeclaration ==
    (\A n \in ModuleNames : Cardinality(Declarers(db, n)) <= 1)
    => \A u \in IndexedFiles(db), f \in IndexedFiles(db) :
          \A use \in UseSites(DataOf(db, u)) :
             use.module_name \in DOMAIN DataOf(db, f).global_items
             => \A pos \in Covered(use.location) :
                   Goto(db, FilePath(files, u), pos)
                     = Some([document |-> FilePath(files, f),
                             range |-> DeclarationRange(DataOf(db, f), use.module_name)])

\* C3: when two files both declare a module name, the global table resolves
\* it to the declaration in the one of the two that was updated last.
C3_LastUpdatedDeclarerWins ==
    \A n \in DOMAIN declared_order :
       Len(declared_order[n]) = 2
       => LET last == declared_order[n][2]
          IN /\ n \in DOMAIN global_items
             /\ global_items[n]
                  = [file_id |-> Get(files, last).value,
                     item_id |-> DataOf(db, Get(files, last).value).global_items[n]]

\* C4: when an update of a file drops a module name the file declared and no
\* other indexed file declares it, the global table has no entry for the name
\* afterwards and goto_definition on every use of the name returns nothing.
C4_DroppedModuleUnresolved ==
    [][\A n \in ModuleNames :
          (/\ result'.op = "update"
           /\ result'.panic = ""
           /\ result'.value.value \in Declarers(db, n)
           /\ Declarers(db', n) = {})
          => /\ n \notin DOMAIN global_items'
             /\ \A u \in IndexedFiles(db') :
                   \A use \in UseSites(DataOf(db', u)) :
                      use.module_name = n
                      => \A pos \in Covered(use.location) :
                            Goto(db', FilePath(files', u), pos) = None]_vars

\* C5: an update that repeats the update before it (same path, same tree)
\* returns the same FileId and leaves the answer of goto_definition at every
\* position of every document as it was after the first of the two.
C5_UpdateIdempotent ==
    [][(result'.op = "update" /\ result'.again)
       => /\ result'.value = result.value
          /\ \A document \in Paths, pos \in Positions :
                Goto(db', document, pos) = Goto(db, document, pos)]_vars

\* the update before was repeated, in a database that answers some query
C5_Witness ==
    /\ result.op = "update"
    /\ result.again
    /\ \E document \in Paths, pos \in Positions : Goto(db, document, pos).some

\* C6: an update that fails leaves the catalog, every per-file index and the
\* global table as they were, and with them every answer of goto_definition.
C6_FailedUpdateChangesNothing ==
    [][(result'.op = "update" /\ result'.panic # "")
       => /\ files' = files
          /\ data' = data
          /\ global_items' = global_items
          /\ \A document \in Paths, pos \in Positions :
                Goto(db', document, pos) = Goto(db, document, pos)]_vars

\* an update failed for a file that has an index, next to another indexed
\* file, with a module in the global table
C6_Witness ==
    /\ result.op = "update"
    /\ result.panic # ""
    /\ Get(files, result.path).some
    /\ Cardinality(Keys(data)) >= 2
    /\ global_items # EmptyMap

\* C7: update never ends in a panic: a failure of the index construction
\* comes back to the caller as an error value.
C7_UpdateNeverPanics == result.op = "update" => result.panic = ""

\* C10: goto_definition returns nothing when the path was never updated, when
\* no range of the file's location index contains the position, or when the
\* position is on a type-name occurrence of a module no indexed file declares.
C10_MissesReturnNothing ==
    \A document \in Paths, pos \in Positions :
       (\/ ~Get(first_id, document).some
        \/ /\ Get(files, document).some
           /\ \/ \A i \in DOMAIN DataOf(db, Get(files, document).value).location_map :
                    ~Contains(
                        DataOf(db, Get(files, document).value).location_map[i].range,
                        pos)
              \/ \E use \in UseSites(DataOf(db, Get(files, document).value)) :
                    /\ pos \in Covered(use.location)
                    /\ Declarers(db, use.module_name) = {})
       => Goto(db, document, pos) = None

\* C8: for every line of the table and every offset on that line,
\* offset_to_position returns the Position locate_to_position returns,
\* whatever the build does on overflow.
C8_PositionsAgree ==
    \A line \in DOMAIN line_index :
       \A offset \in OnLine(line_index, line), overflow_checks \in BOOLEAN :
          OffsetToPosition(line_index, offset, overflow_checks)
            = LocateToPosition(line_index, Locate(offset, line, 0))

\* C9: the catalog maps the paths seen so far one-to-one to FileIds: the
\* n-th distinct path (path n, the paths being numbered as they are first
\* used) got the number of paths seen before it, the catalog still holds
\* that FileId for it, and an update of the path returns it.
C9_CatalogIsBijection ==
    /\ \A p \in Keys(first_id) : Get(first_id, p) = Some(p - 1)
    /\ files = first_id
    /\ (result.op = "update" /\ result.panic = "")
       => result.value = Get(first_id, result.path)

\* the entries of the location index of a file
LocationIndex(d, file_id) == DataOf(d, file_id).location_map

\* the entries are sorted by begin and no two ranges share a point
SortedDisjoint(location_map) ==
    \A i \in DOMAIN location_map, j \in DOMAIN location_map :
       i < j => PositionCmp(location_map[i].range.end, location_map[j].range.begin) = "Less"

\* the comparison of a range with a point as the specification states it
RangeVsPoint(range, pos) ==
    IF PositionCmp(range.end, pos) = "Less" THEN "Less"
    ELSE IF PositionCmp(range.begin, pos) = "Greater" THEN "Greater"
    ELSE "Equal"

\* C11: in a location index sorted by begin whose ranges do not overlap, the
\* lookup at a position returns the item of the entry whose range contains
\* the position and nothing when no range contains it, and the comparison of
\* a range with a point is Less exactly when the range ends before the point,
\* Greater exactly when it begins after the point, Equal otherwise.
C11_LookupFindsContainingEntry ==
    \A f \in IndexedFiles(db) :
       SortedDisjoint(LocationIndex(db, f))
       => \A pos \in Positions :
             /\ \A i \in DOMAIN LocationIndex(db, f) :
                   RangePartialCmp(LocationIndex(db, f)[i].range, pos)
                     = RangeVsPoint(LocationIndex(db, f)[i].range, pos)
             /\ GetItemOnLocation(db, binary_search_impl, f, pos)
                  = IF \E i \in DOMAIN LocationIndex(db, f) :
                          Contains(LocationIndex(db, f)[i].range, pos)
                    THEN Some(DataOf(db, f).items[
                             LocationIndex(db, f)[
                                 CHOOSE i \in DOMAIN LocationIndex(db, f) :
                                    Contains(LocationIndex(db, f)[i].range, pos)].id + 1])
                    ELSE None

\* the two ranges share a point
Overlap(r1, r2) ==
    /\ PositionCmp(r1.begin, r2.end) # "Greater"
    /\ PositionCmp(r2.begin, r1.end) # "Greater"

\* C12: after every successful update no two ranges of the location index
\* of a file overlap: an item nested in the span of another item is not in
\* the same flat index as the enclosing item.
C12_RangesDoNotOverlap ==
    \A f \in IndexedFiles(db) :
       \A i \in DOMAIN LocationIndex(db, f), j \in DOMAIN LocationIndex(db, f) :
          i # j => ~Overlap(LocationIndex(db, f)[i].range, LocationIndex(db, f)[j].range)

\* ------------------------------------------------------------------------
\* insert_semantic on its own: an index built by inserts in any order
\* ------------------------------------------------------------------------

MaxInserts == 3

\* one file indexed, and an empty DataPerFile about to be filled
InitInsert ==
    /\ binary_search_impl \in BinarySearchImpls
    /\ \E tree \in {"top"} :
          \E after \in {DbUpdate([files |-> NoEntries(NumPaths),
                                   data |-> NoEntries(NumPaths),
                                   global_items |-> EmptyMap],
                                  1, Indexed[tree, binary_search_impl])} :
             /\ files = after.files
             /\ data = after.data
             /\ global_items = after.global_items
             /\ result = Call("update", 1, tree, after.returned, "", FALSE)
             /\ first_id = Put(NoEntries(NumPaths), 1, after.returned.value)
             /\ declared_order = [n \in DOMAIN after.global_items |-> <<1>>]
    /\ newline_tokens = <<>>
    /\ line_index = LineIndexNew([newlines |-> newline_tokens])
    /\ building = EmptyDataPerFile(line_index)
    /\ seen = 1

\* DataPerFile::insert_semantic of an item of one character that begins at
\* begin
InsertSemanticCall(begin) ==
    /\ building.panic = ""
    /\ Len(building.items) < MaxInserts
    /\ \E after \in {InsertSemantic(building,
                                    UnknownIdentifierItem("x",
                                        Range(begin, Position(begin.row, begin.col + 1))),
                                    binary_search_impl)} :
          /\ building' = after.self
          /\ result' = Call("insert_semantic", 0, "", Some(after.idx),
                            after.self.panic, FALSE)
    /\ UNCHANGED <<files, data, global_items, binary_search_impl, newline_tokens,
                   line_index, seen, first_id, declared_order>>

NextInsert == \E begin \in Positions : InsertSemanticCall(begin)

SpecInsert == InitInsert /\ [][NextInsert]_vars

\* the entries are strictly increasing by begin position
StrictlyIncreasing(location_map) ==
    \A i \in DOMAIN location_map, j \in DOMAIN location_map :
       i < j => PositionCmp(location_map[i].range.begin,
                            location_map[j].range.begin) = "Less"

\* C13: after every update and after every single insert during
\* construction, the entries of a location index are strictly increasing by
\* begin position (sorted, no two sharing a begin), whatever the order of
\* the inserts
C13_LocationIndexStrictlyIncreasing ==
    /\ StrictlyIncreasing(building.location_map)
    /\ \A f \in IndexedFiles(db) : StrictlyIncreasing(LocationIndex(db, f))

\* three inserts were made, the last of them in front of the other two, next
\* to an indexed file with several entries
C13_Witness ==
    /\ Len(building.location_map) = 3
    /\ building.location_map[1].id = 2
    /\ \E f \in IndexedFiles(db) : Len(LocationIndex(db, f)) >= 3

\* the offsets of the first bytes after the terminators of a newline token:
\* a terminator, LF or CR-LF, ends with its LF
AfterTerminators(tok) ==
    LET ends == SelectSeq([i \in 1 .. Len(tok.str) |-> i], LAMBDA i : tok.str[i] = "\n")
    IN [k \in 1 .. Len(ends) |-> tok.offset + ends[k]]

RECURSIVE LineStarts(_)
\* the offsets of the first bytes of the lines that the tokens terminate
LineStarts(tokens) ==
    IF tokens = <<>> THEN <<>>
    ELSE AfterTerminators(Head(tokens)) \o LineStarts(Tail(tokens))

\* C14: the line table holds offset 0 for the first line followed by exactly
\* one entry per line terminator, the absolute offset of the first byte after
\* it, a CR-LF pair and a lone LF each counting as one terminator
C14_LineTableHoldsLineStarts ==
    line_index = <<0>> \o LineStarts(newline_tokens)

\* a table was built from a text with a blank line whose newline token mixes
\* LF and CR-LF, and a position was computed from it
C14_Witness ==
    /\ \E t \in DOMAIN newline_tokens :
          /\ Len(newline_tokens[t].str) = 3
          /\ newline_tokens[t].offset > 0
    /\ Len(line_index) = MaxTerminators + 1
    /\ result.op = "offset_to_position"

\* the ItemId dereferences in the arena to an item of the kind
RefersTo(items, id, kind) ==
    /\ ArenaGet(items, id).some
    /\ ArenaGet(items, id).value.kind = kind

\* C15: after any sequence of update calls every ItemId stored in a file's
\* location index, in its locally declared names or in the fields of a
\* ModuleInstance item dereferences in the ItemStore of the same file,
\* module_name to a ModuleIdentifier item and instance_name to an
\* UnknownIdentifier item
C15_ItemIdsDereference ==
    \A f \in IndexedFiles(db) :
       LET index == DataOf(db, f)
       IN /\ \A i \in DOMAIN index.location_map :
                ArenaGet(index.items, index.location_map[i].id).some
          /\ \A n \in DOMAIN index.global_items :
                ArenaGet(index.items, index.global_items[n]).some
          /\ \A i \in DOMAIN index.items :
                index.items[i].kind = "ModuleInstance"
                   => /\ RefersTo(index.items, index.items[i].module_name,
                                  "ModuleIdentifier")
                      /\ RefersTo(index.items, index.items[i].instance_name,
                                  "UnknownIdentifier")

\* an update stored an index that holds a ModuleInstance item, next to
\* another indexed file
C15_Witness ==
    /\ result.op = "update"
    /\ result.panic = ""
    /\ Cardinality(IndexedFiles(db)) >= 2
    /\ \E i \in DOMAIN DataOf(db, result.value.value).items :
          DataOf(db, result.value.value).items[i].kind = "ModuleInstance"

\* the table entry of the name points at a declaration of the name in the
\* current index of its file
Live(d, name) ==
    LET entry == d.global_items[name]
    IN /\ entry.file_id \in IndexedFiles(d)
       /\ name \in DOMAIN DataOf(d, entry.file_id).global_items
       /\ DataOf(d, entry.file_id).global_items[name] = entry.item_id
       /\ RefersTo(DataOf(d, entry.file_id).items, entry.item_id, "ModuleIdentifier")
       /\ ArenaGet(DataOf(d, entry.file_id).items, entry.item_id).value.module_name = name

\* C16: after any sequence of update calls every entry of the global table
\* is live: its FileId has a current index, that index declares the name with
\* the same ItemId, and the ItemId dereferences there to a ModuleIdentifier
\* item of that name; so get_module never meets a missing file or a stale
\* ItemId
C16_GlobalEntriesLive ==
    \A name \in DOMAIN global_items :
       /\ Live(db, name)
       /\ ~GetModule(db, name).undefined
       /\ GetModule(db, name).found.some

\* an update replaced the index of a file while the table holds names of two
\* files
C16_Witness ==
    /\ result.op = "update"
    /\ result.again
    /\ \E n1 \in DOMAIN global_items, n2 \in DOMAIN global_items :
          global_items[n1].file_id # global_items[n2].file_id

\* the two tables agree on every key but the one
OthersUnchanged(before, after, key) ==
    \A k \in 1 .. Slots(before) : k # key => Get(after, k) = Get(before, k)

\* the names the index stored under the FileId declares, none without index
DeclaredBy(d, file_id) ==
    IF Get(d.data, file_id + 1).some THEN DOMAIN DataOf(d, file_id).global_items
    ELSE {}

\* C17: a successful update(path, tree) changes only the per-file index of
\* the FileId of the path, the catalog entry of the path (created on first
\* sight only) and the table entries of the names declared by the old or the
\* new index of that file; every other per-file index, every other path's
\* FileId and every other table entry are unchanged; goto_definition changes
\* no state at all
C17_UpdateChangesOnlyItsFile ==
    [][/\ (result'.op = "update" /\ result'.panic = "")
             => LET path == result'.path
                    file_id == result'.value.value
                    declared == DeclaredBy(db, file_id)
                                   \cup DOMAIN Get(data', file_id + 1).value.global_items
                IN /\ OthersUnchanged(files, files', path)
                   /\ (Get(files, path).some => Get(files', path) = Get(files, path))
                   /\ OthersUnchanged(data, data', file_id + 1)
                   /\ \A n \in (DOMAIN global_items \cup DOMAIN global_items') \ declared :
                         /\ n \in DOMAIN global_items
                         /\ n \in DOMAIN global_items'
                         /\ global_items'[n] = global_items[n]
       /\ (result'.op = "goto_definition" => UNCHANGED <<files, data, global_items>>)
      ]_vars

====
